---- MODULE Spec2Model ----
(***************************************************************************)
(* Session/draft store of climb-count: ClimbModel (models/ClimbModel.js)   *)
(* over its two IndexedDB object stores, driven by ClimbController.        *)
(*                                                                         *)
(* Encoding of JavaScript values:                                          *)
(*   - an object reference that may be null is a sequence of length 0 or 1 *)
(*     (None / Some(x));                                                   *)
(*   - the values a dynamically typed field can take (success, notes) are  *)
(*     strings: "true", "false", "null", "undefined", "yes", ...;          *)
(*   - a Date is the record [ms |-> n];                                    *)
(*   - numeric ids are the value Date.now() returned, a missing id is      *)
(*     Undefined and the string key "current" is CurrentKey.               *)
(***************************************************************************)
EXTENDS Integers, Sequences, FiniteSets, TLC

(* ------------------------------ bounds --------------------------------- *)
MaxClock == 2
MaxAttempts == 2
MaxStatAttempts == 3
MaxRoutes == 2
MaxPending == 3

(* ----------------------------- encodings ------------------------------- *)
None == <<>>
Some(x) == <<x>>
CurrentKey == 0
Undefined == -1

Merge(a, b) ==
  [f \in (DOMAIN a) \cup (DOMAIN b) |-> IF f \in DOMAIN b THEN b[f] ELSE a[f]]

Truthy(v) == v \notin {"false", "null", "undefined", ""}

(* ------------------------------ inputs --------------------------------- *)
RouteA == [id |-> 1, name |-> "Test Route", color |-> "red", gym |-> "Test Gym"]
RouteB == [id |-> 2, name |-> "Route 2", color |-> "blue", gym |-> ""]

Routes == {RouteA}

DateInputs == {"", "2023-01-15T10:30"}
NotesInputs == {""}

SessionInputs ==
  { [date |-> "2023-01-15T10:30", gym |-> "Test Gym"],
    [date |-> "", gym |-> "Test Gym"],
    [date |-> "2023-01-15T10:30", gym |-> ""] }

AttemptInputs ==
  { [routeId |-> 1, route |-> Some(RouteA), success |-> "true", notes |-> "Great climb"],
    [routeId |-> 2, route |-> Some(RouteB), success |-> "false", notes |-> ""],
    [routeId |-> Undefined, route |-> None, success |-> "true", notes |-> ""],
    [routeId |-> 1, route |-> Some(RouteA), success |-> "null", notes |-> ""],
    [routeId |-> 1, route |-> Some(RouteA), success |-> "undefined", notes |-> ""],
    [routeId |-> 1, route |-> Some(RouteA), success |-> "yes", notes |-> ""] }

PatchInputs ==
  { [route |-> Some(RouteB)],
    [id |-> 99, timestamp |-> [ms |-> 0], routeId |-> 2, success |-> "false"] }

AppPatchInputs == { [success |-> "false"] }

EditAttemptInputs ==
  { [routeId |-> 1, route |-> Some(RouteA), success |-> "true", notes |-> "Great climb"] }

EditSessionInputs == { [date |-> "2023-01-15T10:30", gym |-> "Test Gym"] }

\* attempts a history can hold: logged against a route (success or failure),
\* left without a route by an edit, and recorded by the first version of the
\* application, which stored the color on the attempt itself
StatAttemptInputs ==
  { [routeId |-> 1, route |-> Some(RouteA), success |-> "true", notes |-> "null"],
    [routeId |-> 1, route |-> Some(RouteA), success |-> "false", notes |-> "null"],
    [routeId |-> Undefined, route |-> None, success |-> "true", notes |-> "null"],
    [routeId |-> Undefined, route |-> None, success |-> "false", notes |-> "null",
     color |-> "green"] }

(* --------------------------- program state ----------------------------- *)
VARIABLES
  sessions,
  currentSession,
  sessionsStore,
  draftsStore,
  keyGen,
  selectedRoute,
  selectedResult,
  now,
  logged,
  last,
  localStorage,
  dbVersion,
  db,
  backup,
  routesStore,
  routeKeyGen,
  routeDb,
  dialog,
  pending

\* the routes object store and RouteModel's connection
routeSide == <<routesStore, routeKeyGen, routeDb>>

\* what only database initialization, backup and the route subsystem change
platform == <<localStorage, dbVersion, db, backup, routeSide, dialog, pending>>

vars == <<sessions, currentSession, sessionsStore, draftsStore, keyGen,
          selectedRoute, selectedResult, now, logged, last, platform>>

EmptyStore == [k \in {} |-> None]

(* ------------------------- ClimbModel helpers -------------------------- *)
\* the time value of an Invalid Date
NaN == -1

ParseDate(s) == [ms |-> IF s = "2023-01-15T10:30" THEN 10 ELSE NaN]

CopyDate(d) == [ms |-> d.ms]

ValidSessionData(d) == d.date # "" /\ d.gym # ""

NewSession(t, d) ==
  [id |-> t, date |-> ParseDate(d.date), gym |-> d.gym, attempts |-> <<>>]

ValidAttemptData(d) ==
  /\ d.route # None
  /\ d.success # "null"
  /\ d.success # "undefined"

NotesOrNull(n) == IF Truthy(n) THEN n ELSE "null"

NewAttempt(t, d) ==
  [id |-> t, timestamp |-> [ms |-> t], routeId |-> d.routeId,
   route |-> d.route, success |-> d.success, notes |-> NotesOrNull(d.notes)]

PushAttemptMut(attempts, a) == <<a>> \o attempts

PushAttempt(attempts, a) == Append(attempts, a)

AddAttemptErrorMut(cs, d) ==
  IF ~ValidAttemptData(d) THEN "Route and result are required"
  ELSE IF cs = None THEN "No active session"
  ELSE "none"

AddAttemptError(cs, d) ==
  IF cs = None THEN "No active session"
  ELSE IF ~ValidAttemptData(d) THEN "Route and result are required"
  ELSE "none"

FinishErrorMut(cs) == "No session to finish or no attempts logged"

FinishError(cs) ==
  IF cs = None \/ Len(cs[1].attempts) = 0
  THEN "No session to finish or no attempts logged"
  ELSE "none"

(* ---------------------------- IndexedDB -------------------------------- *)
Put(store, key, rec) ==
  [k \in (DOMAIN store) \cup {key} |-> IF k = key THEN rec ELSE store[k]]

Remove(store, key) == [k \in (DOMAIN store) \ {key} |-> store[k]]

MinKey(S) == CHOOSE k \in S : \A j \in S : k <= j

RECURSIVE GetAll(_)
GetAll(store) ==
  IF DOMAIN store = {} THEN <<>>
  ELSE LET k == MinKey(DOMAIN store)
       IN <<store[k]>> \o GetAll(Remove(store, k))

DraftKey(cs) == IF cs.id = Undefined THEN CurrentKey ELSE cs.id

SaveDraft(cs, drafts) ==
  IF cs = None THEN drafts
  ELSE Put(drafts, DraftKey(cs[1]), [cs[1] EXCEPT !.id = DraftKey(cs[1])])

\* the record store.put writes, part_003:467: the spread of null adds nothing
DraftRecord(cs) ==
  IF cs = None THEN [id |-> CurrentKey]
  ELSE [cs[1] EXCEPT !.id = DraftKey(cs[1])]

\* saveDraft() from its store.put on, part_003:461-473
PutDraft(cs, drafts) == Put(drafts, DraftRecord(cs).id, DraftRecord(cs))

DeleteDraft(drafts) == Remove(drafts, CurrentKey)

HasDraft(drafts) == CurrentKey \in DOMAIN drafts

LoadedAttempt(a) == [a EXCEPT !.timestamp = CopyDate(a.timestamp)]

LoadedAttempts(as) == [i \in 1..Len(as) |-> LoadedAttempt(as[i])]

LoadedSession(s) ==
  [s EXCEPT !.date = CopyDate(s.date), !.attempts = LoadedAttempts(s.attempts)]

LoadSessions(store) ==
  LET all == GetAll(store) IN [i \in 1..Len(all) |-> LoadedSession(all[i])]

\* the session loadDraft builds from the stored record, part_003:487-497: a
\* record without date and attempts gives an Invalid Date and no attempts
DraftSession(rec) ==
  IF "attempts" \in DOMAIN rec
  THEN LoadedSession([rec EXCEPT !.id = Undefined])
  ELSE [id |-> Undefined, date |-> [ms |-> NaN], gym |-> "undefined",
        attempts |-> <<>>]

LoadDraft(cs, drafts) ==
  IF CurrentKey \in DOMAIN drafts
  THEN Some(DraftSession(drafts[CurrentKey]))
  ELSE cs

RECURSIVE AddAll(_, _, _)
AddAll(seq, store, gen) ==
  IF seq = <<>> THEN [ok |-> TRUE, store |-> store, gen |-> gen]
  ELSE LET s == Head(seq)
           key == IF s.id = Undefined THEN gen ELSE s.id
       IN IF key \in DOMAIN store
          THEN [ok |-> FALSE, store |-> store, gen |-> gen]
          ELSE AddAll(Tail(seq), Put(store, key, [s EXCEPT !.id = key]),
                      IF key >= gen THEN key + 1 ELSE gen)

AbortedMut(before, written) == EmptyStore

\* the store after a request of the transaction failed: the error event is not
\* cancelled, so the transaction aborts and what it wrote is undone
Aborted(before, written) == before

SaveSessionsMut(sess, store, gen) ==
  [err |-> "none", store |-> store, gen |-> gen]

\* saveSessions(), part_003:182-215
SaveSessions(sess, store, gen) ==
  LET r == AddAll(sess, EmptyStore, gen)
  IN IF r.ok THEN [err |-> "none", store |-> r.store, gen |-> r.gen]
     ELSE [err |-> "ConstraintError", store |-> Aborted(store, r.store),
           gen |-> gen]

(* ------------------------------- JSON ---------------------------------- *)
\* JSON.stringify of a Date: its ISO string, null for an Invalid Date. The
\* ISO string of the time value n is Some(n), null is None.
DateToJSON(d) == IF d.ms = NaN THEN None ELSE Some(d.ms)

\* new Date(value) of a JSON string or null
NewDateMut(j) == [ms |-> 0]

NewDate(j) == IF j = None THEN [ms |-> 0] ELSE [ms |-> j[1]]

AttemptToJSON(a) == [a EXCEPT !.timestamp = DateToJSON(@)]

SessionToJSON(s) ==
  [s EXCEPT !.date = DateToJSON(@),
            !.attempts = [i \in 1..Len(@) |-> AttemptToJSON(@[i])]]

SessionsToJSON(sess) == [i \in 1..Len(sess) |-> SessionToJSON(sess[i])]

\* the objects importData and the JSON.parse reviver build from parsed JSON,
\* part_003:582-589, 97-102
AttemptFromJSON(a) == [a EXCEPT !.timestamp = NewDate(@)]

SessionFromJSON(s) ==
  [s EXCEPT !.date = NewDate(@),
            !.attempts = [i \in 1..Len(@) |-> AttemptFromJSON(@[i])]]

SessionsFromJSON(js) == [i \in 1..Len(js) |-> SessionFromJSON(js[i])]

\* a stored text: valid is FALSE for text JSON.parse rejects, value is the
\* document it parses to
Text(doc) == [valid |-> TRUE, value |-> doc]

Corrupt == [valid |-> FALSE, value |-> <<>>]

(* ------------------------------- Init ---------------------------------- *)
\* no route saved and no RouteModel connection
InitRouteSide ==
  /\ routesStore = EmptyStore
  /\ routeKeyGen = 1
  /\ routeDb = "null"

\* no confirmation dialog has been shown
NoDialog == [overlay |-> "none", promise |-> "none", caller |-> "none"]

InitDialog == dialog = NoDialog

Init ==
  /\ sessions = <<>>
  /\ currentSession = None
  /\ sessionsStore = EmptyStore
  /\ draftsStore = EmptyStore
  /\ keyGen = 1
  /\ selectedRoute = None
  /\ selectedResult = "null"
  /\ now = 1
  /\ logged = 0
  /\ last = [op |-> "init", err |-> "none"]
  /\ localStorage = EmptyStore
  /\ dbVersion = 2
  /\ db = "open"
  /\ backup = None
  /\ InitRouteSide
  /\ InitDialog
  /\ pending = <<>>

Tick ==
  /\ now < MaxClock
  /\ now' = now + 1
  /\ last' = [op |-> "tick", err |-> "none"]
  /\ UNCHANGED <<sessions, currentSession, sessionsStore, draftsStore, keyGen,
                 selectedRoute, selectedResult, logged, platform>>

(* ----------------------- ClimbModel operations ------------------------- *)
FindIndexMut(seq, id) ==
  IF \E i \in 1..Len(seq) : seq[i].id = id
  THEN CHOOSE i \in 1..Len(seq) :
         /\ seq[i].id = id
         /\ \A j \in 1..(i - 1) : seq[j].id # id
  ELSE Len(seq)

FindIndex(seq, id) ==
  IF \E i \in 1..Len(seq) : seq[i].id = id
  THEN CHOOSE i \in 1..Len(seq) :
         /\ seq[i].id = id
         /\ \A j \in 1..(i - 1) : seq[j].id # id
  ELSE 0

HasId(seq, id) == \E i \in 1..Len(seq) : seq[i].id = id

RemoveAt(seq, i) == SubSeq(seq, 1, i - 1) \o SubSeq(seq, i + 1, Len(seq))

PatchInvalid(p) ==
  /\ "route" \in DOMAIN p
  /\ p.route # None
  /\ \/ "success" \notin DOMAIN p
     \/ p.success \in {"null", "undefined"}

UpdatedAttemptMut(orig, p, attemptId) == Merge(orig, p)

UpdatedAttempt(orig, p, attemptId) ==
  Merge(Merge(orig, p), [id |-> attemptId, timestamp |-> orig.timestamp])

\* startNewSession(sessionData), part_003:217-230
StartNewSession(d) ==
  /\ IF ~ValidSessionData(d)
     THEN /\ last' = [op |-> "startNewSession",
                      err |-> "Session date and gym/location are required"]
          /\ UNCHANGED currentSession
     ELSE /\ currentSession' = Some(NewSession(now, d))
          /\ last' = [op |-> "startNewSession", err |-> "none"]
  /\ UNCHANGED <<sessions, sessionsStore, draftsStore, keyGen,
                 selectedRoute, selectedResult, now, logged, platform>>

\* addAttemptToCurrentSession(attemptData), part_003:232-260
AddAttemptToCurrentSession(d) ==
  LET e == AddAttemptError(currentSession, d) IN
  /\ last' = [op |-> "addAttemptToCurrentSession", err |-> e, data |-> d]
  /\ IF e # "none"
     THEN UNCHANGED <<currentSession, draftsStore, logged>>
     ELSE /\ logged < MaxAttempts
          /\ logged' = logged + 1
          /\ currentSession' =
               Some([currentSession[1] EXCEPT
                       !.attempts = PushAttempt(@, NewAttempt(now, d))])
          /\ draftsStore' = SaveDraft(currentSession', draftsStore)
  /\ UNCHANGED <<sessions, sessionsStore, keyGen, selectedRoute,
                 selectedResult, now, platform>>

\* finishCurrentSession(), part_003:388-400
FinishCurrentSession ==
  LET e == FinishError(currentSession) IN
  IF e # "none"
  THEN /\ last' = [op |-> "finishCurrentSession", err |-> e]
       /\ UNCHANGED <<sessions, currentSession, sessionsStore, draftsStore,
                      keyGen, selectedRoute, selectedResult, now, logged, platform>>
  ELSE LET pushed == Append(sessions, currentSession[1])
           r == SaveSessions(pushed, sessionsStore, keyGen)
       IN /\ sessions' = pushed
          /\ currentSession' = None
          /\ draftsStore' = DeleteDraft(draftsStore)
          /\ sessionsStore' = r.store
          /\ keyGen' = r.gen
          /\ last' = [op |-> "finishCurrentSession", err |-> r.err]
          /\ UNCHANGED <<selectedRoute, selectedResult, now, logged, platform>>

\* updateAttemptInCurrentSession(attemptId, updatedData), part_003:307-337
UpdateAttemptInCurrentSession(l, attemptId, p) ==
  LET as == currentSession[1].attempts
      ai == FindIndex(as, attemptId)
      e == IF ai = 0 THEN "Attempt not found in current session"
           ELSE IF PatchInvalid(p) THEN "Route and result are required"
           ELSE "none"
  IN /\ last' = [l EXCEPT !.err = e]
     /\ IF e # "none"
        THEN UNCHANGED <<currentSession, draftsStore>>
        ELSE /\ currentSession' =
                  Some([currentSession[1] EXCEPT
                          !.attempts[ai] = UpdatedAttempt(as[ai], p, attemptId)])
             /\ draftsStore' = SaveDraft(currentSession', draftsStore)
     /\ UNCHANGED <<sessions, sessionsStore, keyGen>>

\* updateAttempt(sessionId, attemptId, updatedData), part_003:265-302
UpdateAttempt(sessionId, attemptId, p) ==
  LET l == [op |-> "updateAttempt", err |-> "none", sessionId |-> sessionId,
            attemptId |-> attemptId]
      si == FindIndex(sessions, sessionId)
  IN /\ IF si = 0
        THEN IF currentSession # None /\ currentSession[1].id = sessionId
             THEN UpdateAttemptInCurrentSession(l, attemptId, p)
             ELSE /\ last' = [l EXCEPT !.err = "Session not found"]
                  /\ UNCHANGED <<sessions, currentSession, sessionsStore,
                                 draftsStore, keyGen>>
        ELSE LET as == sessions[si].attempts
                 ai == FindIndex(as, attemptId)
                 e == IF ai = 0 THEN "Attempt not found"
                      ELSE IF PatchInvalid(p)
                      THEN "Route and result are required"
                      ELSE "none"
             IN IF e # "none"
                THEN /\ last' = [l EXCEPT !.err = e]
                     /\ UNCHANGED <<sessions, currentSession, sessionsStore,
                                    draftsStore, keyGen>>
                ELSE LET upd == [sessions EXCEPT
                                   ![si].attempts[ai] =
                                     UpdatedAttempt(as[ai], p, attemptId)]
                         r == SaveSessions(upd, sessionsStore, keyGen)
                     IN /\ sessions' = upd
                        /\ sessionsStore' = r.store
                        /\ keyGen' = r.gen
                        /\ last' = [l EXCEPT !.err = r.err]
                        /\ UNCHANGED <<currentSession, draftsStore>>
     /\ UNCHANGED <<selectedRoute, selectedResult, now, logged, platform>>

DeleteAttemptFromCurrentSessionMut(l, attemptId) ==
  LET as == currentSession[1].attempts
      ai == FindIndex(as, attemptId)
  IN /\ IF ai = 0
        THEN /\ last' = [l EXCEPT !.err = "Attempt not found in current session"]
             /\ UNCHANGED <<currentSession, draftsStore>>
        ELSE /\ currentSession' =
                  IF Len(as) = 1 THEN None
                  ELSE Some([currentSession[1] EXCEPT !.attempts = RemoveAt(as, ai)])
             /\ draftsStore' = SaveDraft(currentSession', draftsStore)
             /\ last' = l
     /\ UNCHANGED <<sessions, sessionsStore, keyGen>>

\* deleteAttemptFromCurrentSession(attemptId), part_003:370-386
DeleteAttemptFromCurrentSession(l, attemptId) ==
  LET as == currentSession[1].attempts
      ai == FindIndex(as, attemptId)
  IN /\ IF ai = 0
        THEN /\ last' = [l EXCEPT !.err = "Attempt not found in current session"]
             /\ UNCHANGED <<currentSession, draftsStore>>
        ELSE /\ currentSession' =
                  Some([currentSession[1] EXCEPT !.attempts = RemoveAt(as, ai)])
             /\ draftsStore' = SaveDraft(currentSession', draftsStore)
             /\ last' = l
     /\ UNCHANGED <<sessions, sessionsStore, keyGen>>

\* deleteAttempt(sessionId, attemptId), part_003:342-365
DeleteAttempt(sessionId, attemptId) ==
  LET l == [op |-> "deleteAttempt", err |-> "none", sessionId |-> sessionId,
            attemptId |-> attemptId]
      si == FindIndex(sessions, sessionId)
  IN /\ IF si = 0
        THEN IF currentSession # None /\ currentSession[1].id = sessionId
             THEN DeleteAttemptFromCurrentSession(l, attemptId)
             ELSE /\ last' = [l EXCEPT !.err = "Session not found"]
                  /\ UNCHANGED <<sessions, currentSession, sessionsStore,
                                 draftsStore, keyGen>>
        ELSE LET as == sessions[si].attempts
                 ai == FindIndex(as, attemptId)
             IN IF ai = 0
                THEN /\ last' = [l EXCEPT !.err = "Attempt not found"]
                     /\ UNCHANGED <<sessions, currentSession, sessionsStore,
                                    draftsStore, keyGen>>
                ELSE LET upd == [sessions EXCEPT
                                   ![si].attempts = RemoveAt(as, ai)]
                         r == SaveSessions(upd, sessionsStore, keyGen)
                     IN /\ sessions' = upd
                        /\ sessionsStore' = r.store
                        /\ keyGen' = r.gen
                        /\ last' = [l EXCEPT !.err = r.err]
                        /\ UNCHANGED <<currentSession, draftsStore>>
     /\ UNCHANGED <<selectedRoute, selectedResult, now, logged, platform>>

(* ------------------------ database initialization ---------------------- *)
\* indexedDB.open(name, version) on a database whose version is current while
\* another connection, which does not close on versionchange, is open or not:
\* a lower version is refused, an upgrade waits for the other connection
OpenRequest(version, current, otherOpen) ==
  IF version < current THEN "VersionError"
  ELSE IF version > current /\ otherOpen THEN "blocked"
  ELSE "success"

\* #version, part_003:3
ClimbVersion == 2

SessionsKey == "climbingSessions"
LegacyDraftKey == "climbingSessionDraft"

\* localStorage.getItem(key): null for an absent key
GetItem(ls, key) == IF key \in DOMAIN ls THEN Some(ls[key]) ELSE None

\* db.transaction(...) called from onupgradeneeded, part_003:104, 129: the
\* connection has a live versionchange transaction, and IDBDatabase.transaction
\* then throws InvalidStateError
UpgradeTransaction == "InvalidStateError"

\* the sessions half of migrateFromLocalStorage, part_003:95-117, on
\* m = [ls, store, drafts, gen, err]
MigrateSessions(m) ==
  LET savedSessions == GetItem(m.ls, SessionsKey)
  IN IF savedSessions = None THEN m
     ELSE IF ~savedSessions[1].valid THEN [m EXCEPT !.err = "SyntaxError"]
     ELSE IF UpgradeTransaction # "ok" THEN [m EXCEPT !.err = UpgradeTransaction]
     ELSE LET r == AddAll(SessionsFromJSON(savedSessions[1].value),
                          m.store, m.gen)
          IN IF ~r.ok THEN [m EXCEPT !.err = "ConstraintError"]
             ELSE [m EXCEPT !.store = r.store, !.gen = r.gen,
                            !.ls = Remove(@, SessionsKey)]

\* the draft half of migrateFromLocalStorage, part_003:120-140
MigrateDraft(m) ==
  LET savedDraft == GetItem(m.ls, LegacyDraftKey)
  IN IF savedDraft = None THEN m
     ELSE IF ~savedDraft[1].valid THEN [m EXCEPT !.err = "SyntaxError"]
     ELSE IF UpgradeTransaction # "ok" THEN [m EXCEPT !.err = UpgradeTransaction]
     ELSE [m EXCEPT
             !.drafts = SaveDraft(Some(SessionFromJSON(savedDraft[1].value[1])), @),
             !.ls = Remove(@, LegacyDraftKey)]

\* migrateFromLocalStorage(db), part_003:92-144: the first throw ends the try
\* block; err is what the catch block logs
MigrateFromLocalStorage(ls, store, drafts, gen) ==
  LET m == MigrateSessions([ls |-> ls, store |-> store, drafts |-> drafts,
                            gen |-> gen, err |-> "none"])
  IN IF m.err # "none" THEN m ELSE MigrateDraft(m)

\* onupgradeneeded, part_003:44-85
Upgraded(ls, oldVersion, store, drafts, gen) ==
  IF oldVersion < 2 THEN MigrateFromLocalStorage(ls, store, drafts, gen)
  ELSE [ls |-> ls, store |-> store, drafts |-> drafts, gen |-> gen,
        err |-> "none"]

\* initializeDB() of the constructed model, part_003:17-87
InitializeDB ==
  LET m == Upgraded(localStorage, dbVersion, sessionsStore, draftsStore, keyGen)
  IN /\ db = "null"
     /\ OpenRequest(ClimbVersion, dbVersion, routeDb = "open") = "success"
     /\ db' = "open"
     /\ dbVersion' = IF dbVersion < ClimbVersion THEN ClimbVersion ELSE dbVersion
     /\ localStorage' = m.ls
     /\ sessionsStore' = m.store
     /\ draftsStore' = m.drafts
     /\ keyGen' = m.gen
     /\ sessions' = LoadSessions(m.store)
     /\ currentSession' = LoadDraft(currentSession, m.drafts)
     /\ last' = [op |-> "initializeDB", err |-> "none", migration |-> m.err]
     /\ UNCHANGED <<selectedRoute, selectedResult, now, logged, backup, routeSide,
                    dialog, pending>>

\* page reload: new ClimbModel() and its initializeDB, part_003:8-42
Reload ==
  LET m == Upgraded(localStorage, dbVersion, sessionsStore, draftsStore, keyGen)
  IN /\ db' = "open"
     /\ dbVersion' = IF dbVersion < 2 THEN 2 ELSE dbVersion
     /\ localStorage' = m.ls
     /\ sessionsStore' = m.store
     /\ draftsStore' = m.drafts
     /\ keyGen' = m.gen
     /\ sessions' = LoadSessions(m.store)
     /\ currentSession' = LoadDraft(None, m.drafts)
     /\ selectedRoute' = None
     /\ selectedResult' = "null"
     /\ last' = [op |-> "reload", err |-> "none"]
     /\ UNCHANGED <<now, logged, backup, routeSide, dialog, pending>>

(* ------------------------------ backup --------------------------------- *)
\* the document exportData() serializes, part_003:564-571
ExportedData ==
  [version |-> 2,
   timestamp |-> DateToJSON([ms |-> now]),
   sessions |-> SessionsToJSON(sessions),
   currentSession |->
     IF currentSession = None THEN None
     ELSE Some(SessionToJSON(currentSession[1]))]

\* exportData(), part_003:561-572; the backup file is kept together with the
\* session list and the open session of the store it was taken from
ExportData ==
  /\ backup' = Some([data |-> ExportedData, sessions |-> sessions,
                     currentSession |-> currentSession])
  /\ last' = [op |-> "exportData", err |-> "none"]
  /\ UNCHANGED <<sessions, currentSession, sessionsStore, draftsStore, keyGen,
                 selectedRoute, selectedResult, now, logged, localStorage,
                 dbVersion, db, routeSide, dialog, pending>>

\* importData(jsonData) of a parsable backup, part_003:577-611
ImportData(data) ==
  LET imported == SessionsFromJSON(data.sessions)
      r == SaveSessions(imported, sessionsStore, keyGen)
  IN /\ sessions' = imported
     /\ sessionsStore' = r.store
     /\ keyGen' = r.gen
     /\ last' = [op |-> "importData", err |-> r.err]
     /\ IF r.err = "none" /\ data.currentSession # None
        THEN /\ currentSession' = Some(SessionFromJSON(data.currentSession[1]))
             /\ draftsStore' = SaveDraft(currentSession', draftsStore)
        ELSE UNCHANGED <<currentSession, draftsStore>>
     /\ UNCHANGED <<selectedRoute, selectedResult, now, logged, platform>>

(* --------------------------- statistics -------------------------------- *)
\* getAllAttempts(), part_003:410-412
RECURSIVE GetAllAttempts(_)
GetAllAttempts(sess) ==
  IF sess = <<>> THEN <<>>
  ELSE Head(sess).attempts \o GetAllAttempts(Tail(sess))

IsSuccess(a) == Truthy(a.success)

\* Number.prototype.toFixed(1) of s / t * 100: the nearest tenth, the larger
\* one on a tie, written with one decimal
ToFixed1Mut(s, t) ==
  LET q == (1000 * s) \div t
  IN ToString(q \div 10) \o "." \o ToString(q % 10)

ToFixed1(s, t) ==
  LET q == (2000 * s + t) \div (2 * t)
  IN ToString(q \div 10) \o "." \o ToString(q % 10)

\* getOverallStats(), part_003:414-429
OverallStatsOf(sess) ==
  LET allAttempts == GetAllAttempts(sess)
      totalAttempts == Len(allAttempts)
      totalSuccess == Len(SelectSeq(allAttempts, IsSuccess))
  IN [totalSessions |-> Len(sess),
      totalAttempts |-> totalAttempts,
      totalSuccess |-> totalSuccess,
      overallSuccessRate |->
        IF totalAttempts > 0
        THEN [type |-> "string", value |-> ToFixed1(totalSuccess, totalAttempts)]
        ELSE [type |-> "number", value |-> "0"]]

\* the bucket of one attempt, part_003:436-438
ColorOf(a) ==
  IF a.route # None THEN a.route[1].color
  ELSE IF "color" \in DOMAIN a /\ Truthy(a.color) THEN a.color
  ELSE "unknown"

CountAttemptMut(stats, a) ==
  LET color == ColorOf(a)
      cur == IF color \in DOMAIN stats THEN stats[color]
             ELSE [success |-> 0, total |-> 0]
  IN Put(stats, color,
         [success |-> IF IsSuccess(a) THEN cur.success + 1 ELSE cur.success,
          total |-> IF IsSuccess(a) THEN cur.total + 1 ELSE cur.total])

\* one iteration of the forEach, part_003:435-446
CountAttempt(stats, a) ==
  LET color == ColorOf(a)
      cur == IF color \in DOMAIN stats THEN stats[color]
             ELSE [success |-> 0, total |-> 0]
  IN Put(stats, color,
         [success |-> IF IsSuccess(a) THEN cur.success + 1 ELSE cur.success,
          total |-> cur.total + 1])

RECURSIVE ColorStatsOf(_, _)
ColorStatsOf(attempts, stats) ==
  IF attempts = <<>> THEN stats
  ELSE ColorStatsOf(Tail(attempts), CountAttempt(stats, Head(attempts)))

\* getColorStats(attempts = null), part_003:431-449
ColorStatsFor(attempts, sess) ==
  LET attemptsToAnalyze ==
        IF attempts # None THEN attempts[1] ELSE GetAllAttempts(sess)
  IN ColorStatsOf(attemptsToAnalyze, EmptyStore)

(* ----------------------------- RouteModel ------------------------------- *)
\* what the route subsystem never assigns
climbSide == <<sessions, currentSession, sessionsStore, draftsStore, keyGen,
               selectedRoute, selectedResult, now, logged, localStorage, db,
               backup, dialog, pending>>

RouteVersion == 1

\* RouteModel.initializeDB(), eslint.config.js:88-118, as
\* [err, db, version]: the connection and database version it leaves
RouteOpened ==
  LET r == OpenRequest(RouteVersion, dbVersion, db = "open")
  IN IF r = "success"
     THEN [err |-> "none", db |-> "open",
           version |-> IF dbVersion < RouteVersion THEN RouteVersion ELSE dbVersion]
     ELSE [err |-> r, db |-> "failed", version |-> dbVersion]

\* new RouteModel(), eslint.config.js:81-83
RouteInitializeDB ==
  /\ routeDb = "null"
  /\ RouteOpened.err # "blocked"
  /\ routeDb' = RouteOpened.db
  /\ dbVersion' = RouteOpened.version
  /\ last' = [op |-> "RouteModel", err |-> RouteOpened.err]
  /\ UNCHANGED <<climbSide, routesStore, routeKeyGen>>

\* ensureDBReady(), eslint.config.js:251-255
RouteEnsureDBReady ==
  IF routeDb = "open" THEN [err |-> "none", db |-> "open", version |-> dbVersion]
  ELSE RouteOpened

OrNull(v) == IF Truthy(v) THEN v ELSE "null"

\* saveRoute(routeData), eslint.config.js:123-149
SaveRoute(routeData) ==
  LET rdy == RouteEnsureDBReady
      route == [id |-> routeKeyGen, name |-> OrNull(routeData.name),
                color |-> routeData.color, gym |-> OrNull(routeData.gym),
                notes |-> OrNull(routeData.notes), image |-> routeData.image,
                createdAt |-> [ms |-> now]]
  IN /\ routeDb # "null"
     /\ rdy.err # "blocked"
     /\ routeDb' = rdy.db
     /\ dbVersion' = rdy.version
     /\ IF rdy.err # "none"
        THEN /\ last' = [op |-> "saveRoute", err |-> rdy.err]
             /\ UNCHANGED <<routesStore, routeKeyGen>>
        ELSE /\ routeKeyGen <= MaxRoutes
             /\ routesStore' = Put(routesStore, routeKeyGen, route)
             /\ routeKeyGen' = routeKeyGen + 1
             /\ last' = [op |-> "saveRoute", err |-> "none"]
     /\ UNCHANGED climbSide

\* the result of store.get(id), eslint.config.js:178-184
GetRouteById(id) ==
  IF id \in DOMAIN routesStore THEN Some(routesStore[id]) ELSE None

\* what deleteRoute resolves with, eslint.config.js:204-206
DeleteRouteResult(id) == TRUE

\* the attempts of a session with the snapshots of route id taken out
WithoutRoute(s, id) ==
  [s EXCEPT !.attempts =
     [i \in 1..Len(@) |->
        IF @[i].routeId = id THEN [@[i] EXCEPT !.route = None] ELSE @[i]]]

\* a deleteRoute that cascades into the sessions in memory
DeleteRouteMut(id) ==
  LET rdy == RouteEnsureDBReady
  IN /\ routeDb # "null"
     /\ rdy.err # "blocked"
     /\ routeDb' = rdy.db
     /\ dbVersion' = rdy.version
     /\ IF rdy.err # "none"
        THEN /\ last' = [op |-> "deleteRoute", err |-> rdy.err, id |-> id]
             /\ UNCHANGED <<routesStore, sessions, currentSession>>
        ELSE /\ routesStore' = Remove(routesStore, id)
             /\ sessions' = [i \in 1..Len(sessions) |-> WithoutRoute(sessions[i], id)]
             /\ currentSession' =
                  IF currentSession = None THEN None
                  ELSE Some(WithoutRoute(currentSession[1], id))
             /\ last' = [op |-> "deleteRoute", err |-> "none", id |-> id,
                         result |-> DeleteRouteResult(id)]
     /\ UNCHANGED <<sessionsStore, draftsStore, keyGen, selectedRoute,
                    selectedResult, now, logged, localStorage, db, backup,
                    dialog, pending, routeKeyGen>>

\* deleteRoute(id), eslint.config.js:196-212
DeleteRoute(id) ==
  LET rdy == RouteEnsureDBReady
  IN /\ routeDb # "null"
     /\ rdy.err # "blocked"
     /\ routeDb' = rdy.db
     /\ dbVersion' = rdy.version
     /\ IF rdy.err # "none"
        THEN /\ last' = [op |-> "deleteRoute", err |-> rdy.err, id |-> id]
             /\ UNCHANGED routesStore
        ELSE /\ routesStore' = Remove(routesStore, id)
             /\ last' = [op |-> "deleteRoute", err |-> "none", id |-> id,
                         result |-> DeleteRouteResult(id)]
     /\ UNCHANGED <<climbSide, routeKeyGen>>

(* ----------------------- ClimbController handlers ----------------------- *)
\* handleRouteSelection(routeId), ClimbController.js:1091-1116
HandleRouteSelection(r) ==
  /\ selectedRoute' = r
  /\ last' = [op |-> "handleRouteSelection", err |-> "none"]
  /\ UNCHANGED <<sessions, currentSession, sessionsStore, draftsStore, keyGen,
                 selectedResult, now, logged, platform>>

\* handleResultSelection(success), ClimbController.js:1118-1121
HandleResultSelection(b) ==
  /\ selectedResult' = b
  /\ last' = [op |-> "handleResultSelection", err |-> "none"]
  /\ UNCHANGED <<sessions, currentSession, sessionsStore, draftsStore, keyGen,
                 selectedRoute, now, logged, platform>>

GymOf(r) == IF Truthy(r.gym) THEN r.gym ELSE "Unknown Gym"

\* logAttempt() with the startNewSession() it awaits, ClimbController.js:1141-1186
LogAttempt(sessionDate, notes) ==
  IF selectedRoute = None \/ selectedResult = "null"
  THEN /\ last' = [op |-> "logAttempt", err |-> "Please select a route and result"]
       /\ UNCHANGED <<sessions, currentSession, sessionsStore, draftsStore,
                      keyGen, selectedRoute, selectedResult, now, logged, platform>>
  ELSE LET sd == [date |-> sessionDate, gym |-> GymOf(selectedRoute[1])]
           starting == currentSession = None
           cs1 == IF starting THEN Some(NewSession(now, sd)) ELSE currentSession
           d1 == IF starting THEN SaveDraft(cs1, draftsStore) ELSE draftsStore
           ad == [routeId |-> selectedRoute[1].id, route |-> selectedRoute,
                  success |-> selectedResult, notes |-> notes]
           e == AddAttemptError(cs1, ad)
       IN IF starting /\ ~ValidSessionData(sd)
          THEN /\ last' = [op |-> "logAttempt",
                           err |-> "Session date and gym/location are required"]
               /\ UNCHANGED <<sessions, currentSession, sessionsStore,
                              draftsStore, keyGen, selectedRoute,
                              selectedResult, now, logged, platform>>
          ELSE IF e # "none"
          THEN /\ last' = [op |-> "logAttempt", err |-> e]
               /\ currentSession' = cs1
               /\ draftsStore' = d1
               /\ UNCHANGED <<sessions, sessionsStore, keyGen, selectedRoute,
                              selectedResult, now, logged, platform>>
          ELSE /\ logged < MaxAttempts
               /\ logged' = logged + 1
               /\ currentSession' =
                    Some([cs1[1] EXCEPT
                            !.attempts = PushAttempt(@, NewAttempt(now, ad))])
               /\ draftsStore' = SaveDraft(currentSession', d1)
               /\ selectedRoute' = None
               /\ selectedResult' = "null"
               /\ last' = [op |-> "logAttempt", err |-> "none"]
               /\ UNCHANGED <<sessions, sessionsStore, keyGen, now, platform>>

\* finishSession(), ClimbController.js:1188-1196
FinishSession == FinishCurrentSession

\* clearSession(), ClimbController.js:1266-1284
ClearSession(confirmed) ==
  /\ last' = [op |-> "clearSession", err |-> "none", confirmed |-> confirmed]
  /\ IF ~confirmed
     THEN UNCHANGED <<currentSession, draftsStore, selectedRoute, selectedResult>>
     ELSE /\ draftsStore' = DeleteDraft(draftsStore)
          /\ currentSession' = None
          /\ selectedRoute' = None
          /\ selectedResult' = "null"
  /\ UNCHANGED <<sessions, sessionsStore, keyGen, now, logged, platform>>

IdInputs == 1..MaxClock

\* the application within one page lifetime: controller handlers and attempt
\* edits
Next ==
  \/ Tick
  \/ \E r \in Routes : HandleRouteSelection(Some(r))
  \/ \E b \in {"true", "false"} : HandleResultSelection(b)
  \/ \E sd \in DateInputs, n \in NotesInputs : LogAttempt(sd, n)
  \/ FinishSession
  \/ \E c \in BOOLEAN : ClearSession(c)
  \/ \E sid \in IdInputs, aid \in IdInputs, p \in AppPatchInputs :
       UpdateAttempt(sid, aid, p)
  \/ \E sid \in IdInputs, aid \in IdInputs : DeleteAttempt(sid, aid)

Spec == Init /\ [][Next]_vars

\* the application across page reloads
NextReload ==
  \/ Next
  \/ Reload

SpecReload == Init /\ [][NextReload]_vars

\* the store's public operations called directly with arbitrary arguments
NextApi ==
  \/ Tick
  \/ Reload
  \/ \E d \in SessionInputs : StartNewSession(d)
  \/ \E d \in AttemptInputs : AddAttemptToCurrentSession(d)
  \/ FinishCurrentSession

SpecApi == Init /\ [][NextApi]_vars

\* startNewSession as its caller invokes it: only when no session is open
StartSessionIfNone(d) ==
  /\ currentSession = None
  /\ StartNewSession(d)

\* the store's attempt editing operations on sessions built from valid input
NextEdit ==
  \/ Tick
  \/ \E d \in EditSessionInputs : StartSessionIfNone(d)
  \/ \E d \in EditAttemptInputs : AddAttemptToCurrentSession(d)
  \/ FinishCurrentSession
  \/ \E sid \in IdInputs, aid \in IdInputs, p \in PatchInputs :
       UpdateAttempt(sid, aid, p)
  \/ \E sid \in IdInputs, aid \in IdInputs : DeleteAttempt(sid, aid)

SpecEdit == Init /\ [][NextEdit]_vars

(* ------------------- statistics over given histories -------------------- *)
AttemptLists(n) == UNION { [1..k -> StatAttemptInputs] : k \in 0..n }

\* attempts as addAttemptToCurrentSession stamps them, part_003:245-252
Stamped(as, from) ==
  [j \in 1..Len(as) |->
     Merge(as[j], [id |-> from + j, timestamp |-> [ms |-> from + j]])]

StatSession(id, as) ==
  [id |-> id, date |-> ParseDate("2023-01-15T10:30"), gym |-> "Test Gym",
   attempts |-> as]

\* histories of no, one or two closed sessions holding MaxStatAttempts
\* attempts at most
HistoryInputs ==
  {<<>>}
  \cup { <<StatSession(1, Stamped(l, 0))>> : l \in AttemptLists(MaxStatAttempts) }
  \cup UNION { { <<StatSession(1, SubSeq(Stamped(l, 0), 1, k)),
                   StatSession(2, SubSeq(Stamped(l, 0), k + 1, Len(l)))>> :
                 k \in 0..Len(l) } : l \in AttemptLists(MaxStatAttempts) }

OpenSessionInputs ==
  { None,
    Some(StatSession(3, Stamped(<<[routeId |-> 1, route |-> Some(RouteA),
                                   success |-> "true", notes |-> "null"]>>,
                                MaxStatAttempts))) }

InitStats ==
  /\ sessions \in HistoryInputs
  /\ currentSession \in OpenSessionInputs
  /\ sessionsStore = SaveSessions(sessions, EmptyStore, 1).store
  /\ keyGen = SaveSessions(sessions, EmptyStore, 1).gen
  /\ draftsStore = SaveDraft(currentSession, EmptyStore)
  /\ selectedRoute = None
  /\ selectedResult = "null"
  /\ now = 1
  /\ logged = 0
  /\ last = [op |-> "init", err |-> "none"]
  /\ localStorage = EmptyStore
  /\ dbVersion = 2
  /\ db = "open"
  /\ backup = None
  /\ InitRouteSide
  /\ InitDialog
  /\ pending = <<>>

\* getOverallStats(), part_003:414-429
GetOverallStats ==
  /\ last' = [op |-> "getOverallStats", err |-> "none",
              result |-> OverallStatsOf(sessions)]
  /\ UNCHANGED <<sessions, currentSession, sessionsStore, draftsStore, keyGen,
                 selectedRoute, selectedResult, now, logged, platform>>

\* getColorStats(attempts), part_003:431-449
GetColorStats(attempts) ==
  /\ last' = [op |-> "getColorStats", err |-> "none", attempts |-> attempts,
              result |-> ColorStatsFor(attempts, sessions)]
  /\ UNCHANGED <<sessions, currentSession, sessionsStore, draftsStore, keyGen,
                 selectedRoute, selectedResult, now, logged, platform>>

\* the attempt lists a caller passes: none, or the attempts of one session
ColorStatsArgs ==
  {None, Some(<<>>)}
  \cup { Some(sessions[i].attempts) : i \in 1..Len(sessions) }
  \cup { Some(currentSession[i].attempts) : i \in 1..Len(currentSession) }

NextStats ==
  \/ GetOverallStats
  \/ \E a \in ColorStatsArgs : GetColorStats(a)

SpecStats == InitStats /\ [][NextStats]_vars

(* ------------------ first start after the upgrade ---------------------- *)
\* what the localStorage version of the application left behind,
\* tests/RouteView.test.js:595-597, 703-709
LegacySession(id) ==
  SessionToJSON(StatSession(id, Stamped(<<[routeId |-> 1, route |-> Some(RouteA),
                                           success |-> "true", notes |-> "null"]>>,
                                        id)))

LegacyInputs ==
  { EmptyStore,
    Put(EmptyStore, SessionsKey, Text(<<LegacySession(1), LegacySession(2)>>)),
    Put(EmptyStore, LegacyDraftKey, Text(<<LegacySession(3)>>)),
    Put(Put(EmptyStore, SessionsKey, Text(<<LegacySession(1)>>)),
        LegacyDraftKey, Text(<<LegacySession(3)>>)),
    Put(Put(EmptyStore, SessionsKey, Corrupt),
        LegacyDraftKey, Text(<<LegacySession(3)>>)),
    Put(EmptyStore, SessionsKey, Text(<<LegacySession(1), LegacySession(1)>>)) }

\* new ClimbModel() on a browser that has no database yet, part_003:8-12
InitLegacy ==
  /\ sessions = <<>>
  /\ currentSession = None
  /\ sessionsStore = EmptyStore
  /\ draftsStore = EmptyStore
  /\ keyGen = 1
  /\ selectedRoute = None
  /\ selectedResult = "null"
  /\ now = 1
  /\ logged = 0
  /\ last = [op |-> "init", err |-> "none"]
  /\ localStorage \in LegacyInputs
  /\ dbVersion = 0
  /\ db = "null"
  /\ backup = None
  /\ InitRouteSide
  /\ InitDialog
  /\ pending = <<>>

\* the user acts once the page has started
NextMigrate ==
  \/ InitializeDB
  \/ db = "open" /\ Tick
  \/ db = "open" /\ Reload
  \/ \E d \in EditSessionInputs : db = "open" /\ StartSessionIfNone(d)
  \/ \E d \in EditAttemptInputs : db = "open" /\ AddAttemptToCurrentSession(d)
  \/ db = "open" /\ FinishCurrentSession

SpecMigrate == InitLegacy /\ [][NextMigrate]_vars

(* ------------------------- backup and restore -------------------------- *)
\* updateAttempt / deleteAttempt with a session id that is not in history:
\* addressed to the open session, or to no session at all
UpdateOpenAttempt(sessionId, attemptId, p) ==
  /\ ~HasId(sessions, sessionId)
  /\ UpdateAttempt(sessionId, attemptId, p)

DeleteOpenAttempt(sessionId, attemptId) ==
  /\ ~HasId(sessions, sessionId)
  /\ DeleteAttempt(sessionId, attemptId)

\* a backup file of another store, taken with a session open and an empty
\* history
BackupInputs ==
  { [version |-> 2, timestamp |-> Some(1), sessions |-> <<>>,
     currentSession |-> Some(LegacySession(1))] }

\* one store instance: session operations, edits addressed to the open
\* session, clearSession, and the restore of a backup file
NextLifecycle ==
  \/ Tick
  \/ \E d \in EditSessionInputs : StartSessionIfNone(d)
  \/ \E d \in EditAttemptInputs : AddAttemptToCurrentSession(d)
  \/ FinishCurrentSession
  \/ ClearSession(TRUE)
  \/ \E sid \in IdInputs, aid \in IdInputs, p \in AppPatchInputs :
       UpdateOpenAttempt(sid, aid, p)
  \/ \E sid \in IdInputs, aid \in IdInputs : DeleteOpenAttempt(sid, aid)
  \/ \E d \in BackupInputs : ImportData(d)

SpecLifecycle == Init /\ [][NextLifecycle]_vars

\* one store instance: its session operations, clearSession, and backups
\* taken from it and restored into it
NextBackup ==
  \/ Tick
  \/ \E d \in EditSessionInputs : StartNewSession(d)
  \/ \E d \in EditAttemptInputs : AddAttemptToCurrentSession(d)
  \/ FinishCurrentSession
  \/ ClearSession(TRUE)
  \/ ExportData
  \/ \E i \in 1..Len(backup) : ImportData(backup[i].data)

SpecBackup == Init /\ [][NextBackup]_vars

(* --------------------------- route subsystem --------------------------- *)
\* what the route form supplies, RouteController.js:86-92
RouteInputs ==
  { [name |-> "Test Route", color |-> "red", gym |-> "Test Gym", notes |-> "",
     image |-> "ArrayBuffer"],
    [name |-> "", color |-> "blue", gym |-> "Gym B", notes |-> "crimpy",
     image |-> "ArrayBuffer"] }

RouteIdInputs == 1..(MaxRoutes + 1)

\* a browser that has no database yet and a page that has constructed neither
\* model
InitRoutes ==
  /\ sessions = <<>>
  /\ currentSession = None
  /\ sessionsStore = EmptyStore
  /\ draftsStore = EmptyStore
  /\ keyGen = 1
  /\ selectedRoute = None
  /\ selectedResult = "null"
  /\ now = 1
  /\ logged = 0
  /\ last = [op |-> "init", err |-> "none"]
  /\ localStorage = EmptyStore
  /\ dbVersion = 0
  /\ db = "null"
  /\ backup = None
  /\ InitRouteSide
  /\ InitDialog
  /\ pending = <<>>

\* RouteModel on its own connection
NextRoutes ==
  \/ Tick
  \/ RouteInitializeDB
  \/ \E d \in RouteInputs : SaveRoute(d)
  \/ \E id \in RouteIdInputs : DeleteRoute(id)

SpecRoutes == InitRoutes /\ [][NextRoutes]_vars

(* ------------------------------- startup ------------------------------- *)
\* the page is closed and opened again: its connections are closed and its
\* objects are gone; the models are constructed anew (part_003:8-12,
\* eslint.config.js:75-83) and their open requests are InitializeDB and
\* RouteInitializeDB
ClosePage ==
  /\ db # "null" \/ routeDb # "null"
  /\ db' = "null"
  /\ routeDb' = "null"
  /\ sessions' = <<>>
  /\ currentSession' = None
  /\ selectedRoute' = None
  /\ selectedResult' = "null"
  /\ dialog' = NoDialog
  /\ pending' = <<>>
  /\ last' = [op |-> "close", err |-> "none"]
  /\ UNCHANGED <<sessionsStore, draftsStore, keyGen, now, logged, localStorage,
                 dbVersion, backup, routesStore, routeKeyGen>>

\* a browser without the database, or with the database as a page that only
\* used RouteModel left it
InitStartup ==
  /\ sessions = <<>>
  /\ currentSession = None
  /\ sessionsStore = EmptyStore
  /\ draftsStore = EmptyStore
  /\ keyGen = 1
  /\ selectedRoute = None
  /\ selectedResult = "null"
  /\ now = 1
  /\ logged = 0
  /\ last = [op |-> "init", err |-> "none"]
  /\ localStorage \in LegacyInputs
  /\ dbVersion \in {0, RouteVersion}
  /\ db = "null"
  /\ backup = None
  /\ InitRouteSide
  /\ InitDialog
  /\ pending = <<>>

\* the two models of one page, opened in either order, and the operations of
\* RouteModel
NextStartup ==
  \/ InitializeDB
  \/ RouteInitializeDB
  \/ \E d \in RouteInputs : SaveRoute(d)
  \/ \E id \in RouteIdInputs : DeleteRoute(id)
  \/ Tick
  \/ ClosePage

\* an open request that can be served is served
SpecStartup ==
  /\ InitStartup
  /\ [][NextStartup]_vars
  /\ WF_vars(InitializeDB)
  /\ WF_vars(RouteInitializeDB)

(* ----------------------- asynchronous operations ----------------------- *)
\* pending holds, in the order they were issued, the calls that are suspended:
\* an initializeDB() call goes through the phases "open", "loadSessions" and
\* "loadDraft" (part_003:26-42) and then resumes the operation cont that
\* awaits it in ensureDBReady; a finishCurrentSession that has issued its
\* deleteDraft is in phase "saveSessions", a clearSession in phase "clear"
InitCall(cont, id) == [phase |-> "open", cont |-> cont, id |-> id]

CanSuspend == Len(pending) < MaxPending

\* what the asynchronous operations of ClimbModel never assign
asyncRest == <<selectedRoute, selectedResult, now, backup, routeSide, dialog>>

\* addAttemptToCurrentSession(attemptData) up to the store.put of its
\* saveDraft, or up to the await of ensureDBReady while #db is null,
\* part_003:232-257, 454-467
AddAttemptCalled(d) ==
  LET e == AddAttemptError(currentSession, d) IN
  /\ last' = [op |-> "call", err |-> e, fn |-> "addAttemptToCurrentSession"]
  /\ IF e # "none"
     THEN UNCHANGED <<currentSession, draftsStore, logged, pending>>
     ELSE /\ logged < MaxAttempts
          /\ logged' = logged + 1
          /\ currentSession' =
               Some([currentSession[1] EXCEPT
                       !.attempts = PushAttempt(@, NewAttempt(now, d))])
          /\ IF db = "open"
             THEN /\ draftsStore' = SaveDraft(currentSession', draftsStore)
                  /\ UNCHANGED pending
             ELSE /\ CanSuspend
                  /\ pending' = Append(pending, InitCall("saveDraft", Undefined))
                  /\ UNCHANGED draftsStore
  /\ UNCHANGED <<sessions, sessionsStore, keyGen, localStorage, dbVersion, db,
                 asyncRest>>

\* finishCurrentSession() up to the store.delete of its deleteDraft, or up
\* to the await of ensureDBReady while #db is null, part_003:388-398, 510-520
FinishCalled ==
  LET e == FinishError(currentSession) IN
  /\ last' = [op |-> "call", err |-> e, fn |-> "finishCurrentSession"]
  /\ IF e # "none"
     THEN UNCHANGED <<sessions, currentSession, draftsStore, pending>>
     ELSE /\ CanSuspend
          /\ sessions' = Append(sessions, currentSession[1])
          /\ currentSession' = None
          /\ IF db = "open"
             THEN /\ draftsStore' = DeleteDraft(draftsStore)
                  /\ pending' = Append(pending,
                                       [phase |-> "saveSessions", cont |-> "finish",
                                        id |-> currentSession[1].id])
             ELSE /\ pending' = Append(pending,
                                       InitCall("finish", currentSession[1].id))
                  /\ UNCHANGED draftsStore
  /\ UNCHANGED <<sessionsStore, keyGen, logged, localStorage, dbVersion, db,
                 asyncRest>>

\* ClimbController.clearSession(), confirmed, up to the store.delete of its
\* deleteDraft or the await of ensureDBReady, ClimbController.js:1266-1277
ClearCalled ==
  /\ CanSuspend
  /\ last' = [op |-> "call", err |-> "none", fn |-> "clearSession"]
  /\ IF db = "open"
     THEN /\ draftsStore' = DeleteDraft(draftsStore)
          /\ pending' = Append(pending,
                               [phase |-> "clear", cont |-> "clear", id |-> Undefined])
     ELSE /\ pending' = Append(pending, InitCall("clear", Undefined))
          /\ UNCHANGED draftsStore
  /\ UNCHANGED <<sessions, currentSession, sessionsStore, keyGen, logged,
                 localStorage, dbVersion, db, asyncRest>>

\* the open request of the i-th pending call succeeds, after the upgrade if
\* one is needed: request.onsuccess up to its first await, part_003:26-37.
\* Open requests are served in the order they were made.
OpenSucceeded(i) ==
  LET m == Upgraded(localStorage, dbVersion, sessionsStore, draftsStore, keyGen)
  IN /\ pending[i].phase = "open"
     /\ \A j \in 1..(i - 1) : pending[j].phase # "open"
     /\ OpenRequest(ClimbVersion, dbVersion, routeDb = "open") = "success"
     /\ db' = "open"
     /\ dbVersion' = IF dbVersion < ClimbVersion THEN ClimbVersion ELSE dbVersion
     /\ localStorage' = m.ls
     /\ sessionsStore' = m.store
     /\ draftsStore' = m.drafts
     /\ keyGen' = m.gen
     /\ pending' = [pending EXCEPT ![i].phase = "loadSessions"]
     /\ last' = [op |-> "onsuccess", err |-> "none", migration |-> m.err]
     /\ UNCHANGED <<sessions, currentSession, logged, asyncRest>>

\* request.onsuccess of the loadSessions() the i-th call awaits,
\* part_003:162-172
LoadSessionsDone(i) ==
  /\ pending[i].phase = "loadSessions"
  /\ sessions' = LoadSessions(sessionsStore)
  /\ pending' = [pending EXCEPT ![i].phase = "loadDraft"]
  /\ last' = [op |-> "loadSessions", err |-> "none"]
  /\ UNCHANGED <<currentSession, sessionsStore, draftsStore, keyGen, logged,
                 localStorage, dbVersion, db, asyncRest>>

\* request.onsuccess of the loadDraft() the i-th call awaits, part_003:486-502;
\* initializeDB resolves, and the operation that awaits it goes on to its
\* database request: the store.put of saveDraft, part_003:461-467, or the
\* store.delete of deleteDraft, part_003:513-520
LoadDraftDone(i) ==
  LET cs == LoadDraft(currentSession, draftsStore)
      cont == pending[i].cont
  IN /\ pending[i].phase = "loadDraft"
     /\ currentSession' = cs
     /\ draftsStore' = IF cont = "saveDraft" THEN PutDraft(cs, draftsStore)
                       ELSE IF cont \in {"finish", "clear"}
                       THEN DeleteDraft(draftsStore)
                       ELSE draftsStore
     /\ pending' = IF cont = "finish"
                   THEN [pending EXCEPT ![i].phase = "saveSessions"]
                   ELSE IF cont = "clear"
                   THEN [pending EXCEPT ![i].phase = "clear"]
                   ELSE RemoveAt(pending, i)
     /\ last' = [op |-> "loadDraft", err |-> "none", cont |-> cont]
     /\ UNCHANGED <<sessions, sessionsStore, keyGen, logged, localStorage,
                    dbVersion, db, asyncRest>>

\* the saveSessions() of the i-th call, a finishCurrentSession, completes and
\* the call resolves or rejects, part_003:397-399, 182-215
SaveSessionsDone(i) ==
  LET r == SaveSessions(sessions, sessionsStore, keyGen)
  IN /\ pending[i].phase = "saveSessions"
     /\ sessionsStore' = r.store
     /\ keyGen' = r.gen
     /\ pending' = RemoveAt(pending, i)
     /\ last' = [op |-> "finishCurrentSession", err |-> r.err,
                 sessionId |-> pending[i].id]
     /\ UNCHANGED <<sessions, currentSession, draftsStore, logged, localStorage,
                    dbVersion, db, asyncRest>>

\* clearSession() after its await, ClimbController.js:1278-1280
ClearResumed(i) ==
  /\ pending[i].phase = "clear"
  /\ currentSession' = None
  /\ selectedRoute' = None
  /\ selectedResult' = "null"
  /\ pending' = RemoveAt(pending, i)
  /\ last' = [op |-> "clearSession", err |-> "none", confirmed |-> TRUE]
  /\ UNCHANGED <<sessions, sessionsStore, draftsStore, keyGen, logged,
                 localStorage, dbVersion, db, now, backup, routeSide, dialog>>

\* the page is closed and opened again: new ClimbModel() issues its
\* initializeDB(), part_003:8-12
NewPage ==
  /\ db = "open"
  /\ db' = "null"
  /\ sessions' = <<>>
  /\ currentSession' = None
  /\ selectedRoute' = None
  /\ selectedResult' = "null"
  /\ pending' = <<InitCall("none", Undefined)>>
  /\ last' = [op |-> "close", err |-> "none"]
  /\ UNCHANGED <<sessionsStore, draftsStore, keyGen, now, logged, localStorage,
                 dbVersion, backup, routeSide, dialog>>

\* a page that has just constructed its ClimbModel
InitAsync ==
  /\ sessions = <<>>
  /\ currentSession = None
  /\ sessionsStore = EmptyStore
  /\ draftsStore = EmptyStore
  /\ keyGen = 1
  /\ selectedRoute = None
  /\ selectedResult = "null"
  /\ now = 1
  /\ logged = 0
  /\ last = [op |-> "init", err |-> "none"]
  /\ localStorage = EmptyStore
  /\ dbVersion \in {0, ClimbVersion}
  /\ db = "null"
  /\ backup = None
  /\ InitRouteSide
  /\ InitDialog
  /\ pending = <<InitCall("none", Undefined)>>

\* the operations of the store, called at any moment of the page's life, and
\* the completions of the database requests they wait for
NextAsync ==
  \/ Tick
  \/ \E d \in EditSessionInputs : StartSessionIfNone(d)
  \/ \E d \in EditAttemptInputs : AddAttemptCalled(d)
  \/ FinishCalled
  \/ ClearCalled
  \/ \E i \in 1..Len(pending) : OpenSucceeded(i)
  \/ \E i \in 1..Len(pending) : LoadSessionsDone(i)
  \/ \E i \in 1..Len(pending) : LoadDraftDone(i)
  \/ \E i \in 1..Len(pending) : SaveSessionsDone(i)
  \/ \E i \in 1..Len(pending) : ClearResumed(i)
  \/ NewPage

SpecAsync == InitAsync /\ [][NextAsync]_vars

(* ------------------------------ DialogUtils ----------------------------- *)
\* everything but the dialog and the last operation
store == <<sessions, currentSession, sessionsStore, draftsStore, keyGen,
           selectedRoute, selectedResult, now, logged, localStorage, dbVersion,
           db, backup, routeSide, pending>>

\* showConfirm(message, title) up to the return of its promise,
\* part_009:30-98, called by the page function caller
ShowConfirm(caller) ==
  /\ dialog.overlay # "attached"
  /\ dialog' = [overlay |-> "attached", promise |-> "pending", caller |-> caller]
  /\ last' = [op |-> "showConfirm", err |-> "none"]
  /\ UNCHANGED store

\* the elements of the dialog a click can hit: its two buttons and the rest
\* (header, message text, footer)
ClickTargets == {"confirm", "cancel", "other"}

\* handleClick, the click listener of the dialog element, part_009:56-68; the
\* listener of the overlay, which the click reaches next, ignores it because
\* its target is not the overlay
HandleClick(target) ==
  /\ dialog.overlay = "attached"
  /\ dialog' = [dialog EXCEPT
                  !.promise = IF target = "confirm" THEN "true"
                              ELSE IF target = "cancel" THEN "false"
                              ELSE @,
                  !.overlay = "removed"]
  /\ last' = [op |-> "click", err |-> "none", target |-> target]
  /\ UNCHANGED store

\* the click listener of the overlay for a click on the overlay itself,
\* part_009:81-88
OverlayClick ==
  /\ dialog.overlay = "attached"
  /\ dialog' = [dialog EXCEPT !.promise = "false", !.overlay = "removed"]
  /\ last' = [op |-> "click", err |-> "none", target |-> "overlay"]
  /\ UNCHANGED store

KeyInputs == {"Escape", "Tab"}

\* handleKeydown, part_009:71-78
HandleKeydown(key) ==
  /\ dialog.overlay = "attached"
  /\ dialog' = IF key = "Escape"
               THEN [dialog EXCEPT !.promise = "false", !.overlay = "removed"]
               ELSE dialog
  /\ last' = [op |-> "keydown", err |-> "none", target |-> key]
  /\ UNCHANGED store

\* the promise has just been settled: the function that awaits it resumes
\* before any other event is handled
Resuming ==
  /\ last.op \in {"click", "keydown"}
  /\ dialog.promise \in {"true", "false"}

\* window.finishSession after its await, eslint.config.js:339-341
FinishSessionResumed ==
  /\ Resuming
  /\ dialog.caller = "finishSession"
  /\ IF dialog.promise = "true" THEN FinishSession
     ELSE /\ last' = [op |-> "finishSession", err |-> "none"]
          /\ UNCHANGED <<store, dialog>>

\* window.clearSession after its await, eslint.config.js:350-352, with the
\* answer to the confirm() of ClimbController.clearSession
ClearSessionResumed(confirmed) ==
  /\ Resuming
  /\ dialog.caller = "clearSession"
  /\ IF dialog.promise = "true" THEN ClearSession(confirmed)
     ELSE /\ last' = [op |-> "clearSession", err |-> "none", confirmed |-> FALSE]
          /\ UNCHANGED <<store, dialog>>

\* the page with its Finish and Clear buttons: the dialog covers the page
\* while it is attached
NextDialog ==
  \/ ~Resuming /\ Tick
  \/ \E d \in EditSessionInputs :
       ~Resuming /\ dialog.overlay # "attached" /\ StartSessionIfNone(d)
  \/ \E d \in EditAttemptInputs :
       ~Resuming /\ dialog.overlay # "attached" /\ AddAttemptToCurrentSession(d)
  \/ \E c \in {"finishSession", "clearSession"} : ~Resuming /\ ShowConfirm(c)
  \/ \E t \in ClickTargets : HandleClick(t)
  \/ OverlayClick
  \/ \E k \in KeyInputs : HandleKeydown(k)
  \/ FinishSessionResumed
  \/ \E c \in BOOLEAN : ClearSessionResumed(c)

SpecDialog == Init /\ [][NextDialog]_vars

(* ------------------------------ claims --------------------------------- *)
DraftUpToDate ==
  currentSession # None => SaveDraft(currentSession, draftsStore) = draftsStore

BooleanValues == {"true", "false"}

\* C1: a draft record exists in the drafts collection if and only if a
\* session is open, and every draft record then mirrors the open session's
\* attempts.
C1_DraftIffSessionOpen ==
  /\ (DOMAIN draftsStore # {}) <=> (currentSession # None)
  /\ currentSession # None =>
       \A k \in DOMAIN draftsStore :
         draftsStore[k].attempts = currentSession[1].attempts

\* C2: every successful addAttemptToCurrentSession makes the open session's
\* attempts one longer and keeps the earlier attempts, in order, in front of
\* the new one.
C2_AddAppendsOne ==
  [][(last'.op = "addAttemptToCurrentSession" /\ last'.err = "none") =>
       /\ currentSession # None
       /\ currentSession' # None
       /\ Len(currentSession'[1].attempts) = Len(currentSession[1].attempts) + 1
       /\ SubSeq(currentSession'[1].attempts, 1, Len(currentSession[1].attempts))
            = currentSession[1].attempts
       /\ currentSession'[1].attempts[Len(currentSession'[1].attempts)].success
            = last'.data.success]_vars

C2_Witness ==
  /\ last.op = "addAttemptToCurrentSession"
  /\ last.err = "none"
  /\ currentSession # None
  /\ Len(currentSession[1].attempts) = 2
  /\ currentSession[1].attempts[1] # currentSession[1].attempts[2]

\* C3: finishCurrentSession fails and leaves history and the open session
\* unchanged when no session is open or the open session has no attempts;
\* otherwise it succeeds and no session is open afterwards.
C3_FinishContract ==
  [][last'.op = "finishCurrentSession" =>
       IF currentSession = None \/ Len(currentSession[1].attempts) = 0
       THEN last'.err # "none" /\ UNCHANGED <<sessions, currentSession>>
       ELSE last'.err = "none" /\ currentSession' = None]_vars

\* C4: after finishCurrentSession succeeds the drafts collection holds no
\* record under the key "current" and no draft of the finished session.
C4_NoDraftAfterFinish ==
  [][(last'.op = "finishCurrentSession" /\ last'.err = "none") =>
       /\ ~HasDraft(draftsStore')
       /\ \A k \in DOMAIN draftsStore' :
            draftsStore'[k].attempts # currentSession[1].attempts]_vars

\* C5: a page reload with a session open whose draft has been saved ends
\* with a current session of the same id, date, gym and attempts, and
\* hasDraft() is true.
C5_ReloadRecoversSession ==
  [][(last'.op = "reload" /\ currentSession # None /\ DraftUpToDate) =>
       /\ currentSession' # None
       /\ currentSession'[1] = currentSession[1]
       /\ HasDraft(draftsStore')]_vars

\* C6: startNewSession called with valid data while a session is open fails
\* and leaves the open session and its attempts in place.
C6_StartKeepsOpenSession ==
  [][(last'.op = "startNewSession" /\ currentSession # None) =>
       /\ last'.err # "none"
       /\ currentSession' = currentSession]_vars

\* C7: addAttemptToCurrentSession with no open session fails with the
\* message "No active session" for every payload and changes nothing.
C7_AddWithoutSession ==
  [][(last'.op = "addAttemptToCurrentSession" /\ currentSession = None) =>
       /\ last'.err = "No active session"
       /\ UNCHANGED <<sessions, currentSession, sessionsStore, draftsStore>>]_vars

C7_Witness ==
  /\ last.op = "addAttemptToCurrentSession"
  /\ last.err = "No active session"
  /\ ~ValidAttemptData(last.data)
  /\ currentSession = None
  /\ Len(sessions) > 0
  /\ DOMAIN draftsStore # {}

\* C8: with a session open, addAttemptToCurrentSession fails with the
\* validation error and appends nothing whenever route is absent or success
\* is not a boolean, and every stored attempt has a boolean success.
C8_AddValidatesBoolean ==
  /\ [][(/\ last'.op = "addAttemptToCurrentSession"
          /\ currentSession # None
          /\ \/ last'.data.route = None
             \/ last'.data.success \notin BooleanValues) =>
          /\ last'.err = "Route and result are required"
          /\ UNCHANGED currentSession]_vars
  /\ [](\A i \in 1..Len(sessions \o currentSession) :
          \A j \in 1..Len((sessions \o currentSession)[i].attempts) :
            (sessions \o currentSession)[i].attempts[j].success
              \in BooleanValues)

AllSessions == sessions \o currentSession

FirstWithId(seq, id) ==
  CHOOSE i \in 1..Len(seq) :
    /\ seq[i].id = id
    /\ \A j \in 1..(i - 1) : seq[j].id # id

\* the session updateAttempt/deleteAttempt address: history first, then the
\* open session; 0 when the id matches neither
TargetSession(sid) ==
  IF HasId(sessions, sid) THEN FirstWithId(sessions, sid)
  ELSE IF currentSession # None /\ currentSession[1].id = sid
  THEN Len(sessions) + 1
  ELSE 0

NotFound(sid, aid) ==
  \/ TargetSession(sid) = 0
  \/ ~HasId(AllSessions[TargetSession(sid)].attempts, aid)

TargetAttempt(sid, aid) ==
  FirstWithId(AllSessions[TargetSession(sid)].attempts, aid)

OnlyFieldsChanged(old, new, F) ==
  /\ (DOMAIN new) \ F = (DOMAIN old) \ F
  /\ \A f \in (DOMAIN old) \ F : new[f] = old[f]

UpdateFrame(sid, aid, F) ==
  /\ Len(AllSessions') = Len(AllSessions)
  /\ Len(sessions') = Len(sessions)
  /\ \A i \in 1..Len(AllSessions) :
       /\ OnlyFieldsChanged(AllSessions[i], AllSessions'[i], {"attempts"})
       /\ Len(AllSessions'[i].attempts) = Len(AllSessions[i].attempts)
       /\ \A j \in 1..Len(AllSessions[i].attempts) :
            IF i = TargetSession(sid) /\ j = TargetAttempt(sid, aid)
            THEN OnlyFieldsChanged(AllSessions[i].attempts[j],
                                   AllSessions'[i].attempts[j], F)
            ELSE AllSessions'[i].attempts[j] = AllSessions[i].attempts[j]

\* C9 as claimed: updateAttempt changes no field of the target attempt other
\* than route, success and notes (so id and timestamp stay), and changes no
\* other attempt and no other session.
C9_OnlyRouteSuccessNotes ==
  [][(last'.op = "updateAttempt"
        /\ ~NotFound(last'.sessionId, last'.attemptId)) =>
       UpdateFrame(last'.sessionId, last'.attemptId,
                   {"route", "success", "notes"})]_vars

\* C9 as amended: updateAttempt leaves the target attempt's id and timestamp
\* as they were and changes no field of it other than the fields the patch
\* supplies; no other attempt and no other session changes.
C9_OnlyPatchedFields ==
  [][(last'.op = "updateAttempt"
        /\ ~NotFound(last'.sessionId, last'.attemptId)) =>
       \A p \in PatchInputs :
         UpdateAttempt(last'.sessionId, last'.attemptId, p) =>
           UpdateFrame(last'.sessionId, last'.attemptId,
                       (DOMAIN p) \ {"id", "timestamp"})]_vars

C9_Witness ==
  /\ last.op = "updateAttempt"
  /\ last.err = "none"
  /\ \E i \in 1..Len(AllSessions) :
       /\ Len(AllSessions[i].attempts) = 2
       /\ \E j \in 1..2 :
            /\ AllSessions[i].attempts[j].routeId = 2
            /\ AllSessions[i].attempts[j].success = "false"
            /\ AllSessions[i].attempts[j].id \in IdInputs
            /\ AllSessions[i].attempts[j].timestamp.ms
                 = AllSessions[i].attempts[j].id
            /\ AllSessions[i].attempts[3 - j].routeId = 1

NotFoundErrors ==
  {"Session not found", "Attempt not found",
   "Attempt not found in current session"}

\* C10: updateAttempt and deleteAttempt look the session id up in history
\* first and then in the open session; when the session id matches neither or
\* the attempt id is not in the located session, the call fails with a
\* not-found error and memory, persisted sessions and drafts are unchanged.
C10_NotFoundChangesNothing ==
  [][(/\ last'.op \in {"updateAttempt", "deleteAttempt"}
      /\ NotFound(last'.sessionId, last'.attemptId)) =>
       /\ last'.err \in NotFoundErrors
       /\ UNCHANGED <<sessions, currentSession, sessionsStore, draftsStore>>]_vars

\* a not-found failure although the open session holds attempts: the session
\* id matched a closed session first
C10_Witness ==
  /\ last.op = "deleteAttempt"
  /\ last.err = "Attempt not found"
  /\ currentSession # None
  /\ HasId(sessions, currentSession[1].id)
  /\ \E a \in IdInputs :
       /\ HasId(currentSession[1].attempts, a)
       /\ ~HasId(sessions[FirstWithId(sessions, currentSession[1].id)].attempts, a)

\* the draft record that mirrors the open session, under whatever key
MirrorsOpenSession(drafts, cs) ==
  /\ cs # None
  /\ \E k \in DOMAIN drafts :
       /\ drafts[k].attempts = cs[1].attempts
       /\ drafts[k].gym = cs[1].gym
       /\ drafts[k].date = cs[1].date

\* C11: an updateAttempt/deleteAttempt that passes lookup and validation
\* rewrites the persisted sessions collection, which afterwards equals the
\* in-memory history, and leaves the drafts alone when the target session is
\* closed; it rewrites only the draft and leaves the persisted sessions alone
\* when the target is the open session.
C11_PersistenceBranching ==
  [][(/\ last'.op \in {"updateAttempt", "deleteAttempt"}
      /\ ~NotFound(last'.sessionId, last'.attemptId)
      /\ last'.err # "Route and result are required") =>
       IF HasId(sessions, last'.sessionId)
       THEN /\ GetAll(sessionsStore') = sessions'
            /\ UNCHANGED <<currentSession, draftsStore>>
       ELSE /\ MirrorsOpenSession(draftsStore', currentSession')
            /\ UNCHANGED <<sessions, sessionsStore>>]_vars

C13_ClearDiscardsSessionAndDraft ==
  [][(last'.op = "clearSession" /\ last'.confirmed) =>
       /\ currentSession' = None
       /\ DOMAIN draftsStore' = {}
       /\ UNCHANGED <<sessions, sessionsStore>>]_vars

\* positions <<i, j>> of the attempts of closed sessions
ClosedAttempts ==
  { ij \in (1..Len(sessions)) \X (1..MaxStatAttempts + 1) :
      ij[2] <= Len(sessions[ij[1]].attempts) }

\* the text of a number of tenths q with one decimal
OneDecimal(q) == ToString(q \div 10) \o "." \o ToString(q % 10)

\* C15: getOverallStats returns the number of closed sessions, the number of
\* attempts in closed sessions, the number of those with success true, and as
\* rate the number 0 exactly when there is no attempt and otherwise the
\* percentage of successes rounded to one decimal, as text.
C15_OverallStats ==
  last.op = "getOverallStats" =>
    LET r == last.result
        n == Cardinality(ClosedAttempts)
        k == Cardinality({ ij \in ClosedAttempts :
                             sessions[ij[1]].attempts[ij[2]].success = "true" })
    IN /\ r.totalSessions = Len(sessions)
       /\ r.totalAttempts = n
       /\ r.totalSuccess = k
       /\ (r.overallSuccessRate = [type |-> "number", value |-> "0"]) <=> (n = 0)
       /\ n > 0 =>
            /\ r.overallSuccessRate.type = "string"
            /\ \E q \in 0..1000 :
                 /\ r.overallSuccessRate.value = OneDecimal(q)
                 /\ 2 * (q * n - 1000 * k) <= n
                 /\ 2 * (1000 * k - q * n) <= n

\* one success of two closed-session attempts gives "50.0" while the open
\* session holds a further successful attempt
C15_Witness ==
  /\ last.op = "getOverallStats"
  /\ currentSession # None
  /\ Len(sessions) = 2
  /\ last.result.totalAttempts = 2
  /\ last.result.totalSuccess = 1
  /\ last.result.overallSuccessRate = [type |-> "string", value |-> "50.0"]

\* the attempts a getColorStats call analyses
Analysed == IF last.attempts # None THEN last.attempts[1] ELSE GetAllAttempts(sessions)

RECURSIVE SumTotals(_, _)
SumTotals(stats, keys) ==
  IF keys = {} THEN 0
  ELSE LET c == CHOOSE c \in keys : TRUE
       IN stats[c].total + SumTotals(stats, keys \ {c})

\* the result of getColorStats groups the analysed attempts by Bucket
GroupedBy(Bucket(_)) ==
  LET as == Analysed
      r == last.result
  IN /\ DOMAIN r = { Bucket(as[j]) : j \in 1..Len(as) }
     /\ \A c \in DOMAIN r :
          /\ r[c].total = Cardinality({ j \in 1..Len(as) : Bucket(as[j]) = c })
          /\ r[c].success =
               Cardinality({ j \in 1..Len(as) :
                               Bucket(as[j]) = c /\ as[j].success = "true" })
          /\ r[c].success <= r[c].total
     /\ SumTotals(r, DOMAIN r) = Len(as)

RouteColorOrUnknown(a) ==
  IF a.route # None THEN a.route[1].color ELSE "unknown"

RouteColorOrOwnColor(a) ==
  IF a.route # None THEN a.route[1].color
  ELSE IF "color" \in DOMAIN a THEN a.color
  ELSE "unknown"

LegacyKeyPresent(key) ==
  key \in DOMAIN localStorage /\ localStorage[key].valid

\* C17: the first database open with legacy keys present leaves every
\* session of the legacy list as a record of the sessions collection and the
\* legacy draft as the drafts record keyed "current"; a legacy key is removed
\* only when all of its records are in the structured store.
C17_MigrationConverts ==
  [][(last'.op = "initializeDB" /\ dbVersion < 2) =>
       /\ LegacyKeyPresent(SessionsKey) =>
            \A i \in 1..Len(localStorage[SessionsKey].value) :
              \E k \in DOMAIN sessionsStore' :
                sessionsStore'[k].attempts
                  = SessionFromJSON(localStorage[SessionsKey].value[i]).attempts
       /\ LegacyKeyPresent(LegacyDraftKey) => HasDraft(draftsStore')
       /\ (SessionsKey \in DOMAIN localStorage
             /\ SessionsKey \notin DOMAIN localStorage') =>
            Len(localStorage[SessionsKey].value) <= Cardinality(DOMAIN sessionsStore')
       /\ (LegacyDraftKey \in DOMAIN localStorage
             /\ LegacyDraftKey \notin DOMAIN localStorage') =>
            HasDraft(draftsStore')]_vars

DistinctIds(seq) ==
  \A i, j \in 1..Len(seq) : i # j => seq[i].id # seq[j].id

\* C18: database initialization completes whatever migrateFromLocalStorage
\* runs into, with the in-memory history equal to the persisted collection,
\* and after a failed migration startNewSession, addAttemptToCurrentSession
\* and finishCurrentSession do what they do on a store that never migrated.
C18_MigrationBestEffort ==
  [][/\ last'.op = "initializeDB" =>
          /\ last'.err = "none"
          /\ db' = "open"
          /\ sessions' = GetAll(sessionsStore')
     /\ (localStorage # EmptyStore /\ db = "open") =>
          /\ (last'.op = "startNewSession" /\ currentSession = None) =>
               /\ last'.err = "none"
               /\ currentSession' # None
               /\ currentSession'[1].attempts = <<>>
          /\ (last'.op = "addAttemptToCurrentSession" /\ currentSession # None) =>
               /\ last'.err = "none"
               /\ Len(currentSession'[1].attempts)
                    = Len(currentSession[1].attempts) + 1
          /\ (/\ last'.op = "finishCurrentSession"
              /\ currentSession # None
              /\ Len(currentSession[1].attempts) > 0
              /\ DistinctIds(Append(sessions, currentSession[1]))) =>
               /\ last'.err = "none"
               /\ currentSession' = None
               /\ sessions' = Append(sessions, currentSession[1])
               /\ GetAll(sessionsStore') = sessions']_vars

\* a session is finished and persisted after the legacy sessions text failed
\* to parse
C18_Witness ==
  /\ last.op = "finishCurrentSession"
  /\ last.err = "none"
  /\ SessionsKey \in DOMAIN localStorage
  /\ ~localStorage[SessionsKey].valid
  /\ db = "open"
  /\ Len(sessions) = 1
  /\ DOMAIN sessionsStore = {sessions[1].id}

AttemptOps == {"addAttemptToCurrentSession", "updateAttempt", "deleteAttempt"}

\* the transitions of the session state machine that do not depend on which
\* operations may open a session
LifecycleRest ==
  /\ (currentSession # None /\ currentSession' = None) =>
       last'.op \in {"finishCurrentSession", "clearSession"}
  /\ (currentSession # None /\ last'.op \in AttemptOps) =>
       /\ currentSession' # None
       /\ currentSession'[1].id = currentSession[1].id
  /\ (currentSession = None
        /\ last'.op \in AttemptOps \cup {"finishCurrentSession"}) =>
       /\ last'.err # "none"
       /\ currentSession' = None

C20_ImportReplacesState ==
  [][(last'.op = "importData" /\ last'.err = "none") =>
       /\ sessions' = backup[1].sessions
       /\ currentSession' = backup[1].currentSession
       /\ GetAll(sessionsStore') = sessions'
       /\ IF backup[1].currentSession = None
          THEN DOMAIN draftsStore' = {}
          ELSE MirrorsOpenSession(draftsStore', currentSession')]_vars

\* C21: in every reachable state no two sessions among the history and the
\* open session share an id.
C21_SessionIdsUnique == DistinctIds(AllSessions)

\* C22: deleteRoute(id) removes the route with that id and leaves the others
\* as they were, and resolves with true exactly when a record with that id
\* existed before the call.
C22_DeleteReturnsExisted ==
  [][(last'.op = "deleteRoute" /\ last'.err = "none") =>
       /\ routesStore' = Remove(routesStore, last'.id)
       /\ last'.result = (last'.id \in DOMAIN routesStore)]_vars

\* C28: the attempt ids within one session are pairwise distinct, so that an
\* attempt id names exactly one attempt of its session.
C28_AttemptIdsDistinct ==
  \A i \in 1..Len(AllSessions) : DistinctIds(AllSessions[i].attempts)

\* C30: a saveSessions whose write fails after the collection was cleared
\* leaves the persisted collection as it was before the call and the caller
\* gets the error; one that succeeds leaves exactly the in-memory history.
C30_SaveSessionsAllOrNothing ==
  [][(/\ last'.op = "finishCurrentSession"
      /\ currentSession # None
      /\ Len(currentSession[1].attempts) > 0) =>
       IF DistinctIds(sessions')
       THEN /\ last'.err = "none"
            /\ GetAll(sessionsStore') = sessions'
       ELSE /\ last'.err = "ConstraintError"
            /\ sessionsStore' = sessionsStore]_vars

\* a finish was rejected while the persisted collection held a session, which
\* is still there
C30_Witness ==
  /\ last.op = "finishCurrentSession"
  /\ last.err = "ConstraintError"
  /\ Len(sessions) = 2
  /\ Cardinality(DOMAIN sessionsStore) = 1
  /\ sessionsStore[sessions[1].id].attempts = sessions[1].attempts

\* C24: whenever the dialog of showConfirm is taken off the page its promise
\* is settled by that event, with true if and only if the Confirm button was
\* clicked and false for Cancel, Escape and a click on the overlay; the
\* dialog is never off the page while its promise is pending.
C24_ConfirmResolvesOnClose ==
  /\ [][(dialog.overlay = "attached" /\ dialog'.overlay = "removed") =>
          /\ dialog.promise = "pending"
          /\ dialog'.promise \in {"true", "false"}
          /\ (dialog'.promise = "true") <=>
               (last'.op = "click" /\ last'.target = "confirm")]_vars
  /\ [](dialog.overlay = "removed" => dialog.promise # "pending")

\* C29: in whichever order the two models of a page open the database, both
\* connections are eventually open, and no RouteModel operation fails on
\* opening the database.
C29_BothOpensSucceed ==
  /\ <>(db = "open" /\ routeDb = "open")
  /\ [](last.op \in {"RouteModel", "saveRoute", "deleteRoute"} =>
          last.err = "none")

\* C25: under every interleaving of the asynchronous operations, a draft
\* record is only ever written from the session that is open at that moment,
\* never from a finished or cleared session or from no session; and when no
\* operation is pending and no session is open, the drafts collection is
\* empty.
C25_DraftOnlyOfOpenSession ==
  /\ [][\A k \in DOMAIN draftsStore' :
          (k \notin DOMAIN draftsStore \/ draftsStore'[k] # draftsStore[k]) =>
            /\ currentSession' # None
            /\ draftsStore'[k] = DraftRecord(currentSession')]_vars
  /\ []((pending = <<>> /\ currentSession = None) => DOMAIN draftsStore = {})

\* C26: the loadDraft of a database initialization never replaces a session
\* that startNewSession created in this page lifetime: that session, with its
\* attempts, is still the current session when the initialization completes.
C26_LoadDraftKeepsStartedSession ==
  [][(/\ last'.op = "loadDraft"
      /\ currentSession # None
      /\ currentSession[1].id # Undefined) =>
       currentSession' = currentSession]_vars

\* C27: the session of a finishCurrentSession that has resolved is in the
\* in-memory history and in the persisted collection, and no later step
\* removes a session from the persisted collection.
C27_FinishedSessionsDurable ==
  /\ [][(last'.op = "finishCurrentSession" /\ last'.err = "none") =>
          /\ HasId(sessions', last'.sessionId)
          /\ last'.sessionId \in DOMAIN sessionsStore']_vars
  /\ [][DOMAIN sessionsStore \subseteq DOMAIN sessionsStore']_vars

(* ------------------------- routes and attempts -------------------------- *)
\* RouteController.deleteRoute(routeId), RouteController.js:141-163: nothing
\* happens unless the user confirms
ControllerDeleteRoute(id, confirmed) ==
  IF confirmed
  THEN DeleteRoute(id)
  ELSE /\ routeDb # "null"
       /\ last' = [op |-> "deleteRoute", err |-> "cancelled", id |-> id]
       /\ UNCHANGED <<climbSide, dbVersion, routeSide>>

\* what the edit dialog resolves with, RouteController.js:181-196: nothing
\* when the user cancels, otherwise the fields of the form
EditInputs ==
  { None,
    Some([name |-> "Renamed", color |-> "", gym |-> "Gym B", notes |-> ""]),
    Some([name |-> "Renamed", color |-> "blue", gym |-> "", notes |-> ""]),
    Some([name |-> "Renamed", color |-> "blue", gym |-> "Gym B", notes |-> ""]) }

\* how editRoute ends, RouteController.js:171-225: RouteModel has no
\* updateRoute, so an edit that passes validation ends in the catch clause
EditRouteError(route, editData) ==
  IF route = None THEN "Route not found"
  ELSE IF editData = None THEN "cancelled"
  ELSE IF ~Truthy(editData[1].color) THEN "Please select a route color"
  ELSE IF ~Truthy(editData[1].gym)
  THEN "Please enter a gym/location for the route"
  ELSE "Error updating route: this.model.updateRoute is not a function"

\* RouteController.editRoute(routeId), RouteController.js:168-226, with the
\* getRoute it awaits, RouteController.js:231-245
EditRoute(id, editData) ==
  LET rdy == RouteEnsureDBReady
      route == IF rdy.err = "none" THEN GetRouteById(id) ELSE None
  IN /\ routeDb # "null"
     /\ rdy.err # "blocked"
     /\ routeDb' = rdy.db
     /\ dbVersion' = rdy.version
     /\ last' = [op |-> "editRoute", err |-> EditRouteError(route, editData),
                 id |-> id]
     /\ UNCHANGED <<climbSide, routesStore, routeKeyGen>>

\* the attempt data logAttempt builds from a route of the store,
\* ClimbController.js:1152-1157
AttemptAgainst(id, success) ==
  [routeId |-> id, route |-> GetRouteById(id), success |-> success,
   notes |-> ""]

\* an attempt is logged against a route read through RouteModel
LogAgainstRoute(id, success) ==
  /\ routeDb = "open"
  /\ id \in DOMAIN routesStore
  /\ AddAttemptCalled(AttemptAgainst(id, success))

\* a page whose two models have been constructed and whose open requests
\* have not been served yet
InitCascade ==
  /\ sessions = <<>>
  /\ currentSession = None
  /\ sessionsStore = EmptyStore
  /\ draftsStore = EmptyStore
  /\ keyGen = 1
  /\ selectedRoute = None
  /\ selectedResult = "null"
  /\ now = 1
  /\ logged = 0
  /\ last = [op |-> "init", err |-> "none"]
  /\ localStorage = EmptyStore
  /\ dbVersion = 0
  /\ db = "null"
  /\ backup = None
  /\ InitRouteSide
  /\ InitDialog
  /\ pending = <<InitCall("none", Undefined)>>

\* the route operations of RouteController beside the session operations of
\* ClimbModel
NextCascade ==
  \/ RouteInitializeDB
  \/ \E i \in 1..Len(pending) : OpenSucceeded(i)
  \/ \E i \in 1..Len(pending) : LoadSessionsDone(i)
  \/ \E i \in 1..Len(pending) : LoadDraftDone(i)
  \/ \E d \in RouteInputs : SaveRoute(d)
  \/ \E id \in RouteIdInputs, c \in BOOLEAN : ControllerDeleteRoute(id, c)
  \/ \E id \in RouteIdInputs, e \in EditInputs : EditRoute(id, e)
  \/ \E d \in EditSessionInputs : StartSessionIfNone(d)
  \/ \E id \in RouteIdInputs : LogAgainstRoute(id, "true")
  \/ FinishCalled

SpecCascade == InitCascade /\ [][NextCascade]_vars

\* C23: deleting or editing a route through RouteController changes nothing
\* in any session: the open session, the history and the persisted sessions
\* and drafts, with the route snapshots their attempts embed, are after the
\* operation what they were before it.
C23_NoCascade ==
  [][last'.op \in {"deleteRoute", "editRoute"} =>
       UNCHANGED <<sessions, currentSession, sessionsStore, draftsStore>>]_vars

\* a route has been deleted from the store while an attempt of a finished
\* session still embeds its snapshot
C23_Witness ==
  /\ last.op = "deleteRoute"
  /\ last.err = "none"
  /\ last.id \notin DOMAIN routesStore
  /\ \E s \in 1..Len(sessions) : \E i \in 1..Len(sessions[s].attempts) :
       /\ sessions[s].attempts[i].routeId = last.id
       /\ sessions[s].attempts[i].route # None
       /\ sessions[s].attempts[i].route[1].name = "Test Route"

====
